---- MODULE Spec2Model ----
(***************************************************************************)
(* Smart Contract Registry Builder (src/SCRG.rs).                          *)
(*                                                                         *)
(* A ContractBuilder<State> owns a name and an Rc<RefCell<HashMap>>.  The  *)
(* model keeps the heap of reference-counted cells (strong count, RefCell  *)
(* borrow flag, map contents), the builder values the caller holds, the    *)
(* Rc handles the caller got from metadata() / registry(), the Ref/RefMut  *)
(* guards outstanding, the activation of on_deploy (with the hook it was   *)
(* given) and the values returned by into_inner.  A HashMap is a set of    *)
(* <<key, value>> entries.                                                 *)
(* into_deployed (lines 97-103) builds the unit struct Deployed with       *)
(* fields and is called nowhere; it is left out.                           *)
(***************************************************************************)
EXTENDS Integers, Sequences, FiniteSets, TLC

VARIABLES
    cells,      \* heap: sequence of RcBox [strong, borrow, value]
    builders,   \* the ContractBuilder values the caller holds
    call,       \* activation of on_deploy: [pc, self, hook, ip]
    handles,    \* Rc handles held by the caller: slot -> [ptr, from]
    guards,     \* Ref / RefMut guards outstanding: owner -> [ref, mut]
    inner,      \* what into_inner returned: [done, value]
    aborted,    \* a panic (BorrowError / BorrowMutError) ended the program
    stageLog,   \* history: the stage tags the builder has carried, in order
    authorLog,  \* history: the arguments of the with_author calls, in order
    hookRuns,   \* history: how many times a deploy hook was started
    newArg      \* history: the name given to new

vars == <<cells, builders, call, handles, guards, inner, aborted,
          stageLog, authorLog, hookRuns, newArg>>

----------------------------------------------------------------------------
(* Bounds of the model *)

MaxHandles == 2
MaxRefs == 2
MaxHookOps == 2
MaxAuthorCalls == 2

Names == {"TokenX", "Vault"}
Authors == {"azaM", "sabir"}

\* what a deploy hook may do with its &mut HashMap
HookOps ==
    { [op |-> "insert", key |-> "timestamp", val |-> "2025-06-28"],
      [op |-> "insert", key |-> "signer", val |-> "0xDEADBEEF"],
      [op |-> "insert", key |-> "status", val |-> "paused"],
      [op |-> "insert", key |-> "author", val |-> "mallory"],
      [op |-> "remove", key |-> "status", val |-> ""],
      [op |-> "remove", key |-> "timestamp", val |-> ""] }

RECURSIVE SeqsUpTo(_, _)
SeqsUpTo(S, n) ==
    IF n = 0 THEN { <<>> }
    ELSE LET shorter == SeqsUpTo(S, n - 1)
         IN  shorter \cup { Append(s, x) : s \in shorter, x \in S }

Hooks == SeqsUpTo(HookOps, MaxHookOps)

\* what the caller writes through a RefMut guard of a Deployed record
ExtWrites == { <<"status", "paused">>, <<"owner", "dao">> }

----------------------------------------------------------------------------
(* HashMap<String, String> *)

HashMapNew == {}

Keys(m) == { e[1] : e \in m }

Get(m, k) == { e[2] : e \in { x \in m : x[1] = k } }

InsertKeepOld(m, k, v) == m \cup { <<k, v>> }

Insert(m, k, v) == { e \in m : e[1] # k } \cup { <<k, v>> }

Remove(m, k) == { e \in m : e[1] # k }

----------------------------------------------------------------------------
(* Rc<RefCell<HashMap<String, String>>> *)

RcNew(cs, m) == Append(cs, [strong |-> 1, borrow |-> 0, value |-> m])

RcClone(cs, p) == [cs EXCEPT ![p].strong = @ + 1]

RcDropFrees(cs, p) ==
    [cs EXCEPT ![p] = [strong |-> 0, borrow |-> 0, value |-> HashMapNew]]

\* dropping one Rc; the cell and its map are freed with the last one
RcDrop(cs, p) ==
    IF cs[p].strong = 1
    THEN [cs EXCEPT ![p] = [strong |-> 0, borrow |-> 0, value |-> HashMapNew]]
    ELSE [cs EXCEPT ![p].strong = @ - 1]

CanBorrowMutIgnoresReaders(cs, p) == cs[p].borrow >= 0

\* RefCell::borrow_mut succeeds only on an unborrowed cell
CanBorrowMut(cs, p) == cs[p].borrow = 0

\* RefCell::borrow succeeds unless a RefMut is out
CanBorrow(cs, p) == cs[p].borrow >= 0

AcquireMutNoFlag(cs, p) == cs

AcquireMut(cs, p) == [cs EXCEPT ![p].borrow = -1]

ReleaseMutLeaks(cs, p) == cs

ReleaseMut(cs, p) == [cs EXCEPT ![p].borrow = 0]

AcquireRef(cs, p) == [cs EXCEPT ![p].borrow = @ + 1]

ReleaseRef(cs, p) == [cs EXCEPT ![p].borrow = @ - 1]

WriteCellReplaces(cs, p, k, v) == [cs EXCEPT ![p].value = { <<k, v>> }]

WriteCell(cs, p, k, v) == [cs EXCEPT ![p].value = Insert(@, k, v)]

EraseCell(cs, p, k) == [cs EXCEPT ![p].value = Remove(@, k)]

\* `cell.borrow_mut().insert(k, v);` : the temporary RefMut lives for the
\* statement only
InsertStmt(cs, p, k, v) == ReleaseMut(WriteCell(AcquireMut(cs, p), p, k, v), p)

----------------------------------------------------------------------------
(* ContractBuilder<State> *)

Builder(n, p, s) == [name |-> n, metadata |-> p, state |-> s]

NoBuilder == Builder("", 0, "none")

NoCall == [pc |-> "none", self |-> NoBuilder, hook |-> <<>>, ip |-> 0]

NoHandle == [ptr |-> 0, from |-> "none"]

NoGuard == [ref |-> 0, mut |-> 0]

\* a method taking `self` by value moves the builder out of the caller's hands
ConsumeKeepsOld(bs, b) == bs

Consume(bs, b) == bs \ {b}

\* the entries the stages write
AuthorKeyTypo == "auther"

AuthorKey == "author"

ValidatedEntryYes == << "validated", "yes" >>

ValidatedEntry == << "validated", "true" >>

StatusEntryPending == << "status", "pending" >>

StatusEntry == << "status", "deployed" >>

\* the builder validate returns
ValidateResultSkips(b) == Builder(b.name, b.metadata, "Deployed")

ValidateResult(b) == Builder(b.name, b.metadata, "Validated")

\* the builder on_deploy returns
OnDeployResultRenamed(b) == Builder("", b.metadata, "Deployed")

OnDeployResult(b) == Builder(b.name, b.metadata, "Deployed")

\* owner of the guards taken through the builder's borrow() / borrow_mut()
SelfOwner == 0

Owners == 0..MaxHandles

Init ==
    \E n \in Names :
        /\ cells = RcNew(<<>>, HashMapNew)
        /\ builders = { Builder(n, 1, "Init") }
        /\ call = NoCall
        /\ handles = [h \in 1..MaxHandles |-> NoHandle]
        /\ guards = [o \in Owners |-> NoGuard]
        /\ inner = [done |-> FALSE, value |-> HashMapNew]
        /\ aborted = FALSE
        /\ stageLog = << "Init" >>
        /\ authorLog = <<>>
        /\ hookRuns = 0
        /\ newArg = n

\* a failed RefCell borrow panics: the program ends, nothing else changes
Panic ==
    /\ aborted' = TRUE
    /\ UNCHANGED <<cells, builders, call, handles, guards, inner,
                   stageLog, authorLog, hookRuns,
                   newArg>>

----------------------------------------------------------------------------
(* impl ContractBuilder<Init> *)

WithAuthor(b, author) ==
    /\ ~aborted
    /\ b \in builders
    /\ b.state = "Init"
    /\ Len(authorLog) < MaxAuthorCalls
    /\ IF CanBorrowMut(cells, b.metadata)
       THEN /\ cells' = InsertStmt(cells, b.metadata, AuthorKey, author)
            /\ builders' = Consume(builders, b) \cup { b }
            /\ authorLog' = Append(authorLog, author)
            /\ UNCHANGED <<call, handles, guards, inner, aborted,
                           stageLog, hookRuns,
                   newArg>>
       ELSE Panic

Validate(b) ==
    /\ ~aborted
    /\ b \in builders
    /\ b.state = "Init"
    /\ IF CanBorrowMut(cells, b.metadata)
       THEN /\ cells' = InsertStmt(cells, b.metadata,
                                    ValidatedEntry[1], ValidatedEntry[2])
            /\ builders' = Consume(builders, b) \cup { ValidateResult(b) }
            /\ stageLog' = Append(stageLog, "Validated")
            /\ UNCHANGED <<call, handles, guards, inner, aborted,
                           authorLog, hookRuns,
                   newArg>>
       ELSE Panic

----------------------------------------------------------------------------
(* impl ContractBuilder<Validated> *)

\* an on_deploy that leaves "status" to be written after the hook
OnDeployEnterNoStatus(b, hook) ==
    /\ ~aborted
    /\ call.pc = "none"
    /\ b \in builders
    /\ b.state = "Validated"
    /\ builders' = Consume(builders, b)
    /\ call' = [pc |-> "L57", self |-> b, hook |-> hook, ip |-> 0]
    /\ UNCHANGED <<cells, handles, guards, inner, aborted,
                   stageLog, authorLog, hookRuns, newArg>>

\* on_deploy(self, hook), lines 49-55: self is moved into the call and
\* "status" is inserted under a temporary RefMut
OnDeployEnter(b, hook) ==
    /\ ~aborted
    /\ call.pc = "none"
    /\ b \in builders
    /\ b.state = "Validated"
    /\ IF CanBorrowMut(cells, b.metadata)
       THEN /\ cells' = InsertStmt(cells, b.metadata,
                                    StatusEntry[1], StatusEntry[2])
            /\ builders' = Consume(builders, b)
            /\ call' = [pc |-> "L57", self |-> b, hook |-> hook, ip |-> 0]
            /\ UNCHANGED <<handles, guards, inner, aborted,
                           stageLog, authorLog, hookRuns,
                   newArg>>
       ELSE Panic

\* lines 57-58: `let mut meta = self.metadata.borrow_mut(); hook(&mut meta)`
OnDeployCallHook ==
    /\ ~aborted
    /\ call.pc = "L57"
    /\ IF CanBorrowMut(cells, call.self.metadata)
       THEN /\ cells' = AcquireMut(cells, call.self.metadata)
            /\ call' = [call EXCEPT !.pc = "hook"]
            /\ hookRuns' = hookRuns + 1
            /\ UNCHANGED <<builders, handles, guards, inner, aborted,
                           stageLog, authorLog,
                   newArg>>
       ELSE Panic

ApplyHookOpOnCopy(cs, p, o) == cs

\* the body of the hook: one operation on its &mut HashMap at a time
ApplyHookOp(cs, p, o) ==
    IF o.op = "insert" THEN WriteCell(cs, p, o.key, o.val)
    ELSE EraseCell(cs, p, o.key)

HookStep ==
    /\ ~aborted
    /\ call.pc = "hook"
    /\ call.ip < Len(call.hook)
    /\ cells' = ApplyHookOp(cells, call.self.metadata, call.hook[call.ip + 1])
    /\ call' = [call EXCEPT !.ip = @ + 1]
    /\ UNCHANGED <<builders, handles, guards, inner, aborted,
                   stageLog, authorLog, hookRuns,
                   newArg>>

\* lines 59-65: the hook has returned, `meta` is dropped and the Deployed
\* builder is returned
OnDeployReturn ==
    /\ ~aborted
    /\ call.pc = "hook"
    /\ call.ip = Len(call.hook)
    /\ cells' = ReleaseMut(cells, call.self.metadata)
    /\ builders' = builders \cup { OnDeployResult(call.self) }
    /\ call' = NoCall
    /\ stageLog' = Append(stageLog, "Deployed")
    /\ UNCHANGED <<handles, guards, inner, aborted, authorLog, hookRuns,
                   newArg>>

----------------------------------------------------------------------------
(* impl ContractBuilder<Deployed> *)

FreeSlots == { h \in 1..MaxHandles : handles[h] = NoHandle }

FirstFree == CHOOSE h \in FreeSlots : \A g \in FreeSlots : h <= g

TotalRefs(p) == cells[p].borrow

\* a registry() that hands out a copy of the record in a cell of its own
RegistryCopies(b) ==
    /\ ~aborted
    /\ b \in builders
    /\ b.state = "Deployed"
    /\ guards[SelfOwner] = NoGuard
    /\ FreeSlots # {}
    /\ cells' = RcNew(cells, cells[b.metadata].value)
    /\ handles' = [handles EXCEPT
                      ![FirstFree] = [ptr |-> Len(cells) + 1,
                                      from |-> "registry"]]
    /\ builders' = Consume(builders, b)
    /\ UNCHANGED <<call, guards, inner, aborted,
                   stageLog, authorLog, hookRuns,
                   newArg>>

\* registry(self): the builder is consumed and its Rc is handed out
Registry(b) ==
    /\ ~aborted
    /\ b \in builders
    /\ b.state = "Deployed"
    /\ guards[SelfOwner] = NoGuard
    /\ FreeSlots # {}
    /\ handles' = [handles EXCEPT
                      ![FirstFree] = [ptr |-> b.metadata, from |-> "registry"]]
    /\ builders' = Consume(builders, b)
    /\ UNCHANGED <<cells, call, guards, inner, aborted,
                   stageLog, authorLog, hookRuns,
                   newArg>>

\* name(&self): reads the field, changes nothing
Name(b) == b.name

\* a metadata() offered in every stage
MetadataAnyStage(b) ==
    /\ ~aborted
    /\ b \in builders
    /\ FreeSlots # {}
    /\ cells' = RcClone(cells, b.metadata)
    /\ handles' = [handles EXCEPT
                      ![FirstFree] = [ptr |-> b.metadata, from |-> "metadata"]]
    /\ UNCHANGED <<builders, call, guards, inner, aborted,
                   stageLog, authorLog, hookRuns, newArg>>

\* metadata(&self): Rc::clone
Metadata(b) ==
    /\ ~aborted
    /\ b \in builders
    /\ b.state = "Deployed"
    /\ FreeSlots # {}
    /\ cells' = RcClone(cells, b.metadata)
    /\ handles' = [handles EXCEPT
                      ![FirstFree] = [ptr |-> b.metadata, from |-> "metadata"]]
    /\ UNCHANGED <<builders, call, guards, inner, aborted,
                   stageLog, authorLog, hookRuns,
                   newArg>>

\* borrow(&self): the Ref borrows the builder
Borrow(b) ==
    /\ ~aborted
    /\ b \in builders
    /\ b.state = "Deployed"
    /\ TotalRefs(b.metadata) < MaxRefs
    /\ IF CanBorrow(cells, b.metadata)
       THEN /\ cells' = AcquireRef(cells, b.metadata)
            /\ guards' = [guards EXCEPT ![SelfOwner].ref = @ + 1]
            /\ UNCHANGED <<builders, call, handles, inner, aborted,
                           stageLog, authorLog, hookRuns,
                   newArg>>
       ELSE Panic

\* borrow_mut(&self): the RefMut borrows the builder
BorrowMut(b) ==
    /\ ~aborted
    /\ b \in builders
    /\ b.state = "Deployed"
    /\ IF CanBorrowMut(cells, b.metadata)
       THEN /\ cells' = AcquireMut(cells, b.metadata)
            /\ guards' = [guards EXCEPT ![SelfOwner].mut = 1]
            /\ UNCHANGED <<builders, call, handles, inner, aborted,
                           stageLog, authorLog, hookRuns,
                   newArg>>
       ELSE Panic

TryUnwrapAlways(cs, p) == cs[p].strong >= 1

\* Rc::try_unwrap: Ok only for the last strong reference
TryUnwrapOk(cs, p) == cs[p].strong = 1

\* into_inner(self): the map itself for the last holder, else the Rc that
\* try_unwrap gave back is dropped and HashMap::new() is returned
IntoInner(b) ==
    /\ ~aborted
    /\ b \in builders
    /\ b.state = "Deployed"
    /\ guards[SelfOwner] = NoGuard
    /\ inner' = [done |-> TRUE,
                 value |-> IF TryUnwrapOk(cells, b.metadata)
                           THEN cells[b.metadata].value
                           ELSE HashMapNew]
    /\ cells' = RcDrop(cells, b.metadata)
    /\ builders' = Consume(builders, b)
    /\ UNCHANGED <<call, handles, guards, aborted,
                   stageLog, authorLog, hookRuns,
                   newArg>>

----------------------------------------------------------------------------
(* What the caller does with the Metadata handles and the guards it holds *)

LiveHandles == { h \in 1..MaxHandles : handles[h] # NoHandle }

\* the cell a guard of owner o refers to
OwnerPtr(o) ==
    IF o = SelfOwner
    THEN (CHOOSE b \in builders : b.state = "Deployed").metadata
    ELSE handles[o].ptr

HandleBorrow(h) ==
    /\ ~aborted
    /\ h \in LiveHandles
    /\ TotalRefs(handles[h].ptr) < MaxRefs
    /\ IF CanBorrow(cells, handles[h].ptr)
       THEN /\ cells' = AcquireRef(cells, handles[h].ptr)
            /\ guards' = [guards EXCEPT ![h].ref = @ + 1]
            /\ UNCHANGED <<builders, call, handles, inner, aborted,
                           stageLog, authorLog, hookRuns,
                   newArg>>
       ELSE Panic

HandleBorrowMut(h) ==
    /\ ~aborted
    /\ h \in LiveHandles
    /\ IF CanBorrowMut(cells, handles[h].ptr)
       THEN /\ cells' = AcquireMut(cells, handles[h].ptr)
            /\ guards' = [guards EXCEPT ![h].mut = 1]
            /\ UNCHANGED <<builders, call, handles, inner, aborted,
                           stageLog, authorLog, hookRuns,
                   newArg>>
       ELSE Panic

\* insert through a RefMut the caller holds
GuardWrite(o, kv) ==
    /\ ~aborted
    /\ guards[o].mut = 1
    /\ cells' = WriteCell(cells, OwnerPtr(o), kv[1], kv[2])
    /\ UNCHANGED <<builders, call, handles, guards, inner, aborted,
                   stageLog, authorLog, hookRuns,
                   newArg>>

DropRef(o) ==
    /\ ~aborted
    /\ guards[o].ref > 0
    /\ cells' = ReleaseRef(cells, OwnerPtr(o))
    /\ guards' = [guards EXCEPT ![o].ref = @ - 1]
    /\ UNCHANGED <<builders, call, handles, inner, aborted,
                   stageLog, authorLog, hookRuns,
                   newArg>>

DropMut(o) ==
    /\ ~aborted
    /\ guards[o].mut = 1
    /\ cells' = ReleaseMut(cells, OwnerPtr(o))
    /\ guards' = [guards EXCEPT ![o].mut = 0]
    /\ UNCHANGED <<builders, call, handles, inner, aborted,
                   stageLog, authorLog, hookRuns,
                   newArg>>

\* a handle can be dropped once no guard borrows it
DropHandle(h) ==
    /\ ~aborted
    /\ h \in LiveHandles
    /\ guards[h] = NoGuard
    /\ cells' = RcDrop(cells, handles[h].ptr)
    /\ handles' = [handles EXCEPT ![h] = NoHandle]
    /\ UNCHANGED <<builders, call, guards, inner, aborted,
                   stageLog, authorLog, hookRuns,
                   newArg>>

----------------------------------------------------------------------------

Next ==
    \/ \E b \in builders, a \in Authors : WithAuthor(b, a)
    \/ \E b \in builders : Validate(b)
    \/ \E b \in builders, hook \in Hooks : OnDeployEnter(b, hook)
    \/ OnDeployCallHook
    \/ HookStep
    \/ OnDeployReturn
    \/ \E b \in builders : Registry(b)
    \/ \E b \in builders : Metadata(b)
    \/ \E b \in builders : Borrow(b)
    \/ \E b \in builders : BorrowMut(b)
    \/ \E b \in builders : IntoInner(b)
    \/ \E h \in 1..MaxHandles : HandleBorrow(h)
    \/ \E h \in 1..MaxHandles : HandleBorrowMut(h)
    \/ \E o \in Owners, kv \in ExtWrites : GuardWrite(o, kv)
    \/ \E o \in Owners : DropRef(o)
    \/ \E o \in Owners : DropMut(o)
    \/ \E h \in 1..MaxHandles : DropHandle(h)

Spec == Init /\ [][Next]_vars

----------------------------------------------------------------------------
(* Views used by the properties *)

\* the map a builder / a handle reads
BuilderView(b) == cells[b.metadata].value

HandleView(h) == cells[handles[h].ptr].value

\* the stage tags carried by the builder values in existence, the one moved
\* into a running on_deploy included
CurStages ==
    { b.state : b \in builders }
        \cup (IF call.pc = "none" THEN {} ELSE { call.self.state })

StageOrder == << "Init", "Validated", "Deployed" >>

IsPrefix(s, t) == Len(s) <= Len(t) /\ \A i \in 1..Len(s) : s[i] = t[i]

LastOf(s) == s[Len(s)]

\* on_deploy returns in this step
ReturnStep == call.pc = "hook" /\ call'.pc = "none" /\ ~aborted'

\* the hook's operations on key k, in order
RECURSIVE OpsOn(_, _)
OpsOn(hook, k) ==
    IF hook = <<>> THEN <<>>
    ELSE IF Head(hook).key = k
         THEN << Head(hook) >> \o OpsOn(Tail(hook), k)
         ELSE OpsOn(Tail(hook), k)

HookKeys == { o.key : o \in HookOps }

InsertedKeys(hook) ==
    { hook[i].key : i \in { j \in 1..Len(hook) : hook[j].op = "insert" } }

----------------------------------------------------------------------------
(* C1: a builder starts in stage Init; in every step each stage tag either
   stays or moves Init -> Validated or Validated -> Deployed, so the stages a
   builder goes through are a prefix of Init, Validated, Deployed with no
   return to an earlier stage and no re-entry; with_author leaves the stage
   at Init; nothing takes a Deployed builder to another stage. *)
C1_StageStep ==
    /\ \A s \in CurStages, t \in CurStages' :
          \/ t = s
          \/ s = "Init" /\ t = "Validated"
          \/ s = "Validated" /\ t = "Deployed"
    /\ \A b \in builders, a \in Authors :
          WithAuthor(b, a) => CurStages' = { "Init" }
    /\ CurStages' # CurStages /\ CurStages' # {}
          => stageLog' = Append(stageLog, LastOf(stageLog'))
                /\ CurStages' = { LastOf(stageLog') }

C1_StageMachine ==
    /\ CurStages = { "Init" }
    /\ [][C1_StageStep]_vars
    /\ [](IsPrefix(stageLog, StageOrder) /\ Len(stageLog) >= 1)

C1_Witness ==
    /\ stageLog = StageOrder
    /\ CurStages = { "Deployed" }
    /\ authorLog # <<>>

----------------------------------------------------------------------------
(* C2 as stated: when on_deploy(hook) returns, for every hook, "status" maps
   to exactly "deployed" and every key the hook inserted is in the map. *)
C2_Original ==
    [][ReturnStep =>
          /\ Get(cells'[call.self.metadata].value, "status") = { "deployed" }
          /\ InsertedKeys(call.hook)
                \subseteq Keys(cells'[call.self.metadata].value)]_vars

(* C2 amended: when on_deploy(hook) returns, "status" maps to exactly
   "deployed" for every hook that neither inserts nor removes "status", and
   every key whose last operation in the hook is an insert is in the map with
   the value of that insert. *)
C2_StatusAndHookKeys ==
    [][ReturnStep =>
          LET m == cells'[call.self.metadata].value
          IN  /\ OpsOn(call.hook, "status") = <<>>
                    => Get(m, "status") = { "deployed" }
              /\ \A k \in HookKeys :
                    LET ops == OpsOn(call.hook, k)
                    IN  ops # <<>> /\ LastOf(ops).op = "insert"
                            => Get(m, k) = { LastOf(ops).val }]_vars

C2_Witness ==
    /\ \E b \in builders :
          /\ b.state = "Deployed"
          /\ Get(BuilderView(b), "status") = { "deployed" }
          /\ Get(BuilderView(b), "timestamp") = { "2025-06-28" }
          /\ Get(BuilderView(b), "signer") = { "0xDEADBEEF" }
    /\ hookRuns = 1

----------------------------------------------------------------------------
(* C3: into_inner on a Deployed builder returns the whole map of the record
   when no handle obtained from metadata() is outstanding, and returns an
   empty map, without a panic, when at least one is. *)
Outstanding(p) == { h \in LiveHandles : handles[h].ptr = p }

C3_IntoInner ==
    [][\A b \in builders :
          IntoInner(b) =>
              /\ ~aborted'
              /\ inner'.done
              /\ inner'.value = IF Outstanding(b.metadata) = {}
                                THEN BuilderView(b)
                                ELSE {}]_vars

C3_Witness ==
    /\ inner.done
    /\ inner.value = {}
    /\ \E h \in LiveHandles : Cardinality(HandleView(h)) >= 3
    /\ ~aborted

----------------------------------------------------------------------------
(* C4: on the Validated builder that validate returns, "validated" maps to
   exactly "true", and with_author is enabled on no builder whose stage is
   Validated or later. *)
C4_Validated ==
    /\ \A b \in builders :
          b.state = "Validated"
              => Get(BuilderView(b), "validated") = { "true" }
    /\ \A b \in builders :
          b.state # "Init" => \A a \in Authors : ~ENABLED WithAuthor(b, a)

C4_Witness ==
    \E b \in builders :
        /\ b.state = "Validated"
        /\ Len(authorLog) < MaxAuthorCalls
        /\ Get(BuilderView(b), "validated") = { "true" }

----------------------------------------------------------------------------
(* C5: after any non-empty sequence of with_author calls in stage Init the
   map holds exactly one "author" entry, and its value is the argument of the
   last call. *)
C5_LastWriteWins ==
    \A b \in builders :
        b.state = "Init" /\ authorLog # <<>>
            => { e \in BuilderView(b) : e[1] = "author" }
                   = { << "author", LastOf(authorLog) >> }

C5_Witness ==
    \E b \in builders :
        /\ b.state = "Init"
        /\ Len(authorLog) = 2
        /\ authorLog[1] # authorLog[2]
        /\ Get(BuilderView(b), "author") = { authorLog[2] }

----------------------------------------------------------------------------
(* C6: the handle registry() returns refers to the builder's own record:
   every live handle reads the same map as it, and an insert made through
   the RefMut of any handle is read through every live handle, the registry
   handle and the handles cloned earlier with metadata() alike. *)
RegistryHandles == { h \in LiveHandles : handles[h].from = "registry" }

C6_WriteVisible ==
    \A h \in LiveHandles, kv \in ExtWrites :
        GuardWrite(h, kv) /\ (RegistryHandles # {})
            => \A g \in LiveHandles :
                  kv \in cells'[handles'[g].ptr].value

C6_Aliasing ==
    /\ [](\A h \in RegistryHandles, g \in LiveHandles :
              HandleView(g) = HandleView(h))
    /\ [][C6_WriteVisible]_vars

C6_Witness ==
    \E h \in RegistryHandles, g \in LiveHandles :
        /\ handles[g].from = "metadata"
        /\ guards[h].mut = 1
        /\ << "owner", "dao" >> \in HandleView(g)

----------------------------------------------------------------------------
(* C7: new("TokenX"), with_author("azaM"), validate(), on_deploy(hook
   inserting timestamp and signer), registry(): on_deploy returns with the
   map holding exactly the five entries author, validated, status, timestamp
   and signer of main, and registry() hands out that record unchanged. *)
MainHook ==
    << [op |-> "insert", key |-> "timestamp", val |-> "2025-06-28"],
       [op |-> "insert", key |-> "signer", val |-> "0xDEADBEEF"] >>

MainMetadata ==
    { << "author", "azaM" >>, << "validated", "true" >>,
      << "status", "deployed" >>, << "timestamp", "2025-06-28" >>,
      << "signer", "0xDEADBEEF" >> }

C7_MainStep ==
    /\ ( /\ ReturnStep
         /\ call.self.name = "TokenX"
         /\ authorLog = << "azaM" >>
         /\ call.hook = MainHook )
          => cells'[call.self.metadata].value = MainMetadata
    /\ \A b \in builders :
          Registry(b) =>
              \E h \in LiveHandles' \ LiveHandles :
                  /\ handles'[h].from = "registry"
                  /\ cells'[handles'[h].ptr].value = BuilderView(b)

C7_MainRun == [][C7_MainStep]_vars

C7_Witness ==
    /\ authorLog = << "azaM" >>
    /\ builders = {}
    /\ \E h \in RegistryHandles :
          /\ HandleView(h) = MainMetadata
          /\ Cardinality(HandleView(h)) = 5
          /\ guards[h].ref = 1

----------------------------------------------------------------------------
(* C8: the deploy hook is started at most once; it has not been started
   while the builder is in Init or Validated, and has been started exactly
   once when the builder is Deployed or later; while it runs, on_deploy's
   RefMut is the only access to the map: no other guard, no other handle
   and no builder in the caller's hands. *)
C8_HookOnce ==
    /\ hookRuns <= 1
    /\ (\E b \in builders : b.state \in { "Init", "Validated" })
          => hookRuns = 0
    /\ call.pc = "L57" => hookRuns = 0
    /\ LastOf(stageLog) = "Deployed" => hookRuns = 1 /\ call.pc = "none"
    /\ call.pc = "hook"
          => /\ hookRuns = 1
             /\ stageLog = << "Init", "Validated" >>
             /\ cells[call.self.metadata].borrow = -1
             /\ cells[call.self.metadata].strong = 1
             /\ \A o \in Owners : guards[o] = NoGuard
             /\ LiveHandles = {}
             /\ builders = {}

C8_Witness ==
    /\ call.pc = "hook"
    /\ call.ip = 1
    /\ Len(call.hook) = 2
    /\ hookRuns = 1

----------------------------------------------------------------------------
(* C9: a borrow_mut requested while a Ref or a RefMut of the same record is
   still held panics and leaves every map as it was; and no map ever holds
   two entries for one key. *)
Holders(p) ==
    { o \in Owners : guards[o] # NoGuard /\ OwnerPtr(o) = p }

NoDuplicateKeys ==
    \A p \in 1..Len(cells) :
        \A k \in Keys(cells[p].value) :
            Cardinality(Get(cells[p].value, k)) = 1

C9_OverlapStep ==
    /\ \A b \in builders :
          BorrowMut(b) /\ Holders(b.metadata) # {}
              => aborted' /\ cells' = cells
    /\ \A h \in LiveHandles :
          HandleBorrowMut(h) /\ Holders(handles[h].ptr) # {}
              => aborted' /\ cells' = cells

C9_OverlapAborts ==
    /\ [][C9_OverlapStep]_vars
    /\ []NoDuplicateKeys
    /\ [][aborted => UNCHANGED vars]_vars

C9_Witness ==
    /\ aborted
    /\ \E o \in Owners : guards[o].ref > 0
    /\ \E p \in 1..Len(cells) : Cardinality(cells[p].value) >= 4

----------------------------------------------------------------------------
(* C10: validate and on_deploy consume the builder they are called on: a
   record never has more than one builder value in existence, and that value
   carries the latest stage the builder has reached. *)
BuildersOf(p) ==
    { b \in builders : b.metadata = p }
        \cup (IF call.pc # "none" /\ call.self.metadata = p
              THEN { call.self } ELSE {})

C10_SingleHandle ==
    /\ \A p \in 1..Len(cells) : Cardinality(BuildersOf(p)) <= 1
    /\ \A b \in builders : b.state = LastOf(stageLog)
    /\ call.pc # "none" => builders = {} /\ call.self.state = "Validated"

C10_Witness ==
    /\ \E b \in builders : b.state = "Deployed" /\ b.metadata = 1
    /\ Cardinality(BuildersOf(1)) = 1
    /\ stageLog = StageOrder

----------------------------------------------------------------------------
(* C11: with_author, validate and on_deploy hold no access to the map once
   they have returned: the cell of a builder in the caller's hands is
   borrowed only by the guards the caller took; inside on_deploy the RefMut
   used to insert "status" is released before the RefMut for the hook is
   requested; and no panic happens before the builder is Deployed. *)
Reached(stage) == \E i \in 1..Len(stageLog) : stageLog[i] = stage

CallerGuards(p) == { o \in Owners : guards[o] # NoGuard /\ OwnerPtr(o) = p }

C11_ScopedAccess ==
    /\ \A b \in builders :
          CallerGuards(b.metadata) = {} => cells[b.metadata].borrow = 0
    /\ call.pc = "L57" => cells[call.self.metadata].borrow = 0
    /\ ~Reached("Deployed") => ~aborted

C11_Witness ==
    /\ call.pc = "L57"
    /\ Get(cells[call.self.metadata].value, "status") = { "deployed" }
    /\ cells[call.self.metadata].borrow = 0
    /\ authorLog # <<>>

----------------------------------------------------------------------------------------------------------------------------------------
(* C12: the name given to new is the name of the builder in every stage,
   whatever is written to the map, and name() on the Deployed builder
   returns it. *)
C12_NameFixed ==
    /\ \A b \in builders : b.name = newArg
    /\ call.pc # "none" => call.self.name = newArg
    /\ \A b \in builders : b.state = "Deployed" => Name(b) = newArg

C12_Witness ==
    /\ newArg = "Vault"
    /\ authorLog # <<>>
    /\ \E b \in builders :
          /\ b.state = "Deployed"
          /\ Name(b) = "Vault"
          /\ << "owner", "dao" >> \in BuilderView(b)
          /\ Cardinality(BuilderView(b)) >= 5

----------------------------------------------------------------------------
(* C13: inside on_deploy "status" is inserted, then the hook runs, then the
   builder becomes Deployed: when the hook starts the map holds
   status = "deployed", validated = "true" and, if with_author was called,
   the author last given; and no Deployed builder exists before the hook
   has returned. *)
C13_DeployOrder ==
    /\ call.pc \in { "L57", "hook" } /\ call.ip = 0
          => LET m == cells[call.self.metadata].value
             IN  /\ Get(m, "status") = { "deployed" }
                 /\ Get(m, "validated") = { "true" }
                 /\ authorLog # <<>> => Get(m, "author") = { LastOf(authorLog) }
    /\ call.pc # "none"
          => /\ ~Reached("Deployed")
             /\ \A b \in builders : b.state # "Deployed"
             /\ call.self.state = "Validated"

C13_Witness ==
    /\ call.pc = "hook"
    /\ call.ip = 0
    /\ call.hook = MainHook
    /\ authorLog = << "sabir", "azaM" >>
    /\ Keys(cells[call.self.metadata].value)
          = { "author", "validated", "status" }

----------------------------------------------------------------------------
(* C14 as stated: a new builder has an empty map; in Init the keys are
   within {author}; in Validated they are within {author, validated} with
   validated = "true" and no "status"; and in any stage "author" is in the
   map only if with_author was called. *)
KeysByStage ==
    \A b \in builders :
        /\ b.state = "Init"
              => /\ Keys(BuilderView(b)) \subseteq { "author" }
                 /\ authorLog = <<>> => BuilderView(b) = {}
        /\ b.state = "Validated"
              => /\ Keys(BuilderView(b)) \subseteq { "author", "validated" }
                 /\ Get(BuilderView(b), "validated") = { "true" }

C14_Original ==
    /\ KeysByStage
    /\ \A p \in 1..Len(cells) :
          "author" \in Keys(cells[p].value) => authorLog # <<>>

(* C14 amended: the same, with the last part limited to the stages before
   Deployed: while the builder is in Init or Validated "author" is in the
   map only if with_author was called (the deploy hook, and any writer after
   it, can insert "author" themselves). *)
C14_KeysByStage ==
    /\ KeysByStage
    /\ \A b \in builders :
          b.state \in { "Init", "Validated" }
              /\ "author" \in Keys(BuilderView(b))
              => authorLog # <<>>

C14_Witness ==
    \E b \in builders :
        /\ b.state = "Validated"
        /\ Keys(BuilderView(b)) = { "author", "validated" }
        /\ Len(authorLog) = 2

----------------------------------------------------------------------------
(* C15: before the builder is Deployed its record has one Rc, the builder's,
   no Metadata handle and no guard exist, and no panic has happened; a panic
   happens only once the builder has been Deployed, on a request that meets
   a guard taken through the Deployed builder or one of its handles. *)
C15_BeforeDeployed ==
    ~Reached("Deployed")
        => /\ LiveHandles = {}
           /\ \A o \in Owners : guards[o] = NoGuard
           /\ \A p \in 1..Len(cells) : cells[p].strong = 1
           /\ ~aborted

C15_AbortStep ==
    ~aborted /\ aborted'
        => /\ Reached("Deployed")
           /\ \E o \in Owners : guards[o] # NoGuard

C15_NoEarlyAbort ==
    /\ []C15_BeforeDeployed
    /\ [][C15_AbortStep]_vars

C15_Witness ==
    /\ aborted
    /\ guards[SelfOwner].mut = 1
    /\ \E h \in LiveHandles : handles[h].from = "metadata"
    /\ stageLog = StageOrder

----------------------------------------------------------------------------
(* C16: when into_inner returns the empty map because handles are
   outstanding, the record is untouched: its map is what it was, only the
   builder's own Rc is given up, the handles and guards are as before; and
   as long as a handle lives the record lives, so dropping all handles but
   one leaves the map whole. *)
C16_FallbackStep ==
    /\ \A b \in builders :
          IntoInner(b) /\ Outstanding(b.metadata) # {}
              => /\ cells'[b.metadata].value = BuilderView(b)
                 /\ cells'[b.metadata].strong = cells[b.metadata].strong - 1
                 /\ cells'[b.metadata].strong
                        = Cardinality(Outstanding(b.metadata))
                 /\ cells'[b.metadata].borrow = cells[b.metadata].borrow
                 /\ handles' = handles
                 /\ guards' = guards
                 /\ b \notin builders'
    /\ \A h \in LiveHandles :
          DropHandle(h) /\ (Outstanding(handles[h].ptr) # { h })
              => cells'[handles[h].ptr].value = HandleView(h)

C16_FallbackKeepsRecord ==
    /\ [][C16_FallbackStep]_vars
    /\ [](\A h \in LiveHandles :
              cells[handles[h].ptr].strong
                  = Cardinality(Outstanding(handles[h].ptr))
                        + Cardinality(BuildersOf(handles[h].ptr)))

C16_Witness ==
    /\ inner.done
    /\ inner.value = {}
    /\ builders = {}
    /\ Cardinality(LiveHandles) = 1
    /\ \E h \in LiveHandles :
          /\ cells[handles[h].ptr].strong = 1
          /\ HandleView(h) = MainMetadata

----------------------------------------------------------------------------
(* C17: with_author changes only the entry of "author", validate only the
   entry of "validated" and on_deploy's own write only the entry of
   "status": every entry of another key is the same after the step and no
   key is removed; the rest of on_deploy (taking the RefMut for the hook,
   dropping it and returning) changes no entry, so every other change made
   during on_deploy is the hook's. *)
OnlyKeyChanged(m, n, k) ==
    /\ { e \in m : e[1] # k } = { e \in n : e[1] # k }
    /\ Keys(m) \subseteq Keys(n)
    /\ k \in Keys(n)

C17_FrameStep ==
    /\ \A b \in builders, a \in Authors :
          WithAuthor(b, a) /\ ~aborted'
              => OnlyKeyChanged(BuilderView(b),
                                cells'[b.metadata].value, "author")
    /\ \A b \in builders :
          Validate(b) /\ ~aborted'
              => OnlyKeyChanged(BuilderView(b),
                                cells'[b.metadata].value, "validated")
    /\ \A b \in builders :
          OnDeployEnter(b, call'.hook) /\ ~aborted'
              => OnlyKeyChanged(BuilderView(b),
                                cells'[b.metadata].value, "status")
    /\ (call.pc = "L57" \/ ReturnStep)
          => cells'[call.self.metadata].value
                 = cells[call.self.metadata].value

C17_Frame == [][C17_FrameStep]_vars

C17_Witness ==
    /\ call.pc = "L57"
    /\ authorLog = << "azaM" >>
    /\ cells[call.self.metadata].value
          = { << "author", "azaM" >>, << "validated", "true" >>,
              << "status", "deployed" >> }

====
